---- MODULE Spec2Model ----
(***************************************************************************)
(* A model of the profiling engine of corvid_debug                         *)
(* (src/src/modules/profiler.rs): Snap, Monitor, MonitorRecordingGuard,    *)
(* MonitorIterator and Profiler.                                           *)
(*                                                                         *)
(* Durations are natural numbers of logical clock ticks.  An f32 quotient  *)
(* is kept as a reduced fraction, 0.0/0.0 as NaN.  A panic is a result of  *)
(* the call that raised it; a panic raised while the write lock of         *)
(* Monitor::snaps is held poisons that lock, as std::sync::RwLock does.    *)
(* Rust's borrow rules are part of the guards of the actions: a            *)
(* MonitorRecordingGuard holds the &mut Monitor, a MonitorIterator a       *)
(* &Monitor and the read lock.                                             *)
(***************************************************************************)
EXTENDS Integers, Sequences, FiniteSets, TLC

\* ------------------------------------------------------------- bounds
MaxLen == 3        \* longest history the model lets a Monitor grow to
MaxDur == 2        \* largest duration of one Snap
MaxTime == 2       \* most ticks the model lets a guard stay alive
MaxIters == 1      \* most MonitorIterators alive at once on one Monitor
MaxRecs == 2       \* most record() calls within one frame
PDen == 4          \* percentile arguments are the fractions k/PDen

DEFAULT_MAX_SNAPSHOTS == 100

Durations == 0..MaxDur
\* percentile arguments k/PDen: below 0, inside [0,1] and above 1
PNums == (0 - 1)..(PDen + 1)

StandaloneNames == {"test"}
ProfilerNames == {"a", "b"}
AllNames == StandaloneNames \cup ProfilerNames
\* Snaps a caller owns itself and times with Snap::record
LoneSnaps == {"s1", "s2"}

VARIABLES
    monitors,   \* registered name -> Monitor (Profiler::monitors, or one Monitor)
    guards,     \* name -> the MonitorRecordingGuard alive on that Monitor
    iters,      \* the MonitorIterators alive
    obs,        \* name -> history of the calls made on that Monitor (observation)
    ret,        \* the last call and what it returned
    lone,       \* name -> a Snap of LoneSnaps and its SnapRecordingGuard
    track       \* name -> what was appended to that Monitor (observation)

vars == <<monitors, guards, iters, obs, ret, lone, track>>

\* ------------------------------------------------------------- values
Min(a, b) == IF a < b THEN a ELSE b

Snap(d) == [duration |-> d]

\* Snap::new
SnapNew == Snap(0)

\* Monitor::new
MonitorNew(name) ==
    [name |-> name,
     snaps |-> <<>>,
     create_new_snap |-> FALSE,
     max_snapshots |-> DEFAULT_MAX_SNAPSHOTS,
     poisoned |-> FALSE]

\* MonitorRecordingGuard::new.  elapsed and viaRecord are observations: the
\* time since the guard was built and whether Monitor::record built it.
MonitorRecordingGuardNew(snap, viaRecord) ==
    [live |-> TRUE, snap |-> snap, elapsed |-> 0, viaRecord |-> viaRecord]

NoGuard == [live |-> FALSE, snap |-> SnapNew, elapsed |-> 0, viaRecord |-> FALSE]

\* results of calls
Val(tag, v, w) == [tag |-> tag, v |-> v, w |-> w]
Unit == Val("Unit", 0, 0)
Panic == Val("Panic", 0, 0)
None == Val("None", 0, 0)
Some(v) == Val("Some", v, 0)
Num(v) == Val("Num", v, 1)
NaN == Val("NaN", 0, 0)
\* cull returns (); v is the number of entries it dropped (an observation)
Culled(dropped) == Val("Unit", dropped, 0)

Ret(op, mon, arg, val, guard) ==
    [op |-> op, mon |-> mon, arg |-> arg, val |-> val, guard |-> guard]

ObsNew == [frameRecs |-> <<>>, cycles |-> 0, onlyCycles |-> TRUE]

\* Snap::new, with no SnapRecordingGuard on it.  start stands for the guard's
\* Instant: the ticks since Instant::now().  records and writes are
\* observations: the guards built on the Snap and the writes to its duration.
LoneNew ==
    [duration |-> 0, live |-> FALSE, start |-> 0, records |-> 0, writes |-> 0]

\* nothing observed yet: log holds the snaps appended since the last clear(),
\* where the place in log of each entry of the history, kept the history the
\* last cull(k) left
TrackNew ==
    [log |-> <<>>, where |-> <<>>, on |-> TRUE,
     kept |-> [valid |-> FALSE, k |-> 0, h |-> <<>>,
               recorded |-> FALSE, again |-> FALSE]]

\* ------------------------------------------------------------- pure functions
RECURSIVE GCD(_, _)
GCD(a, b) == IF b = 0 THEN a ELSE GCD(b, a % b)

\* the f32 quotient num / den, den > 0, as a reduced fraction
Quot(num, den) ==
    LET g == GCD(num, den) IN Val("Num", num \div g, den \div g)

\* mutant of SumDurations: the loop misses the first snap
RECURSIVE SumSkipsFirst(_)
SumSkipsFirst(s) ==
    IF Len(s) <= 1 THEN 0 ELSE s[2].duration + SumSkipsFirst(Tail(s))

RECURSIVE SumDurations(_)
SumDurations(s) ==
    IF s = <<>> THEN 0 ELSE s[1].duration + SumDurations(Tail(s))

\* one step of the stable ascending sort: x goes behind every entry <= x
RECURSIVE InsertByDuration(_, _)
InsertByDuration(x, s) ==
    IF s = <<>> THEN <<x>>
    ELSE IF x.duration < s[1].duration THEN <<x>> \o s
    ELSE <<s[1]>> \o InsertByDuration(x, Tail(s))

\* sorted.sort_by(|a, b| a.duration.partial_cmp(&b.duration).unwrap())
RECURSIVE SortByDuration(_)
SortByDuration(s) ==
    IF s = <<>> THEN <<>>
    ELSE InsertByDuration(s[Len(s)], SortByDuration(SubSeq(s, 1, Len(s) - 1)))

\* (percentile * snaps.len() as f32) as usize, percentile = pn/PDen: the cast
\* truncates towards zero and saturates a negative product to 0
PercentileIndex(pn, len) ==
    IF pn * len < 0 THEN 0 ELSE (pn * len) \div PDen

\* Monitor::average on the Monitor m
AverageOf(m) ==
    IF m.poisoned THEN Panic
    ELSE IF Len(m.snaps) = 0 THEN NaN
    ELSE Quot(SumDurations(m.snaps), Len(m.snaps))

\* Monitor::percentile on the Monitor m
PercentileOf(m, pn) ==
    IF m.poisoned THEN Panic
    ELSE LET sorted == SortByDuration(m.snaps)
             index == PercentileIndex(pn, Len(m.snaps))
         IN IF index >= Len(sorted) THEN Panic ELSE Num(sorted[index + 1].duration)

\* Monitor::len
LenOf(m) == IF m.poisoned THEN Panic ELSE Num(Len(m.snaps))

\* Monitor::latest
LatestOf(m) ==
    IF m.poisoned THEN Panic
    ELSE IF Len(m.snaps) > 0 THEN Some(m.snaps[Len(m.snaps)].duration) ELSE None

\* mutant of Truncated: the newest max_snapshots entries are kept
TruncatedKeepsNewest(snaps, max_snapshots) ==
    IF Len(snaps) > max_snapshots
    THEN SubSeq(snaps, Len(snaps) - max_snapshots + 1, Len(snaps))
    ELSE snaps

\* Vec::truncate(max_snapshots) behind the test snaps.len() > max_snapshots
Truncated(snaps, max_snapshots) ==
    IF Len(snaps) > max_snapshots THEN SubSeq(snaps, 1, max_snapshots) ELSE snaps

\* ------------------------------------------------------------- borrows and the lock
Registered(n) == n \in DOMAIN monitors

\* the read locks held on Monitor::snaps: one per MonitorIterator alive
Readers(n) == Cardinality({it \in iters : it.mon = n})

\* mutant of WriteLockFree: a writer does not wait for the readers
WriteLockIgnoresReaders(n) == TRUE

\* RwLock::write returns only when no read lock is held
WriteLockFree(n) == Readers(n) = 0

\* a &mut Monitor can be taken: no guard and no iterator borrows the Monitor
Unborrowed(n) == Registered(n) /\ ~guards[n].live /\ Readers(n) = 0

\* a &Monitor can be taken: no guard holds the &mut Monitor
Shareable(n) == Registered(n) /\ ~guards[n].live

\* ------------------------------------------------------------- observation
RecsInFrame(n) ==
    Cardinality({i \in 1..Len(obs[n].frameRecs) : obs[n].frameRecs[i] # "frame"})

\* a call other than record, release, new_frame or a read was made
ObsOther(n) == [obs EXCEPT ![n].onlyCycles = FALSE, ![n].cycles = 0]

ObsCycle(n) ==
    IF obs[n].onlyCycles THEN [obs EXCEPT ![n].cycles = @ + 1] ELSE obs

\* ------------------------------------------------------------- Monitor
\* mutant of Opened: record() forgets to raise the flag
OpenedLeavesFlag(m) == m

\* the Monitor after record() opened a recording: self.create_new_snap = true
Opened(m) == [m EXCEPT !.create_new_snap = TRUE]

\* Monitor::record
Record(n) ==
    /\ Unborrowed(n)
    /\ RecsInFrame(n) < MaxRecs
    /\ IF monitors[n].create_new_snap
       THEN /\ ret' = Ret("record", n, 0, None, NoGuard)
            /\ obs' = [ObsCycle(n) EXCEPT ![n].frameRecs = Append(@, "None")]
            /\ UNCHANGED <<monitors, guards>>
       ELSE /\ monitors' = [monitors EXCEPT ![n] = Opened(@)]
            /\ guards' = [guards EXCEPT ![n] = MonitorRecordingGuardNew(SnapNew, TRUE)]
            /\ ret' = Ret("record", n, 0, Some(0), NoGuard)
            /\ obs' = [obs EXCEPT ![n].frameRecs = Append(@, "Some")]
    /\ UNCHANGED iters

\* MonitorRecordingGuard::new called by a user of the crate, with a Snap of its own
GuardNew(n, d) ==
    /\ Unborrowed(n)
    /\ guards' = [guards EXCEPT ![n] = MonitorRecordingGuardNew(Snap(d), FALSE)]
    /\ ret' = Ret("guard_new", n, d, Unit, NoGuard)
    /\ obs' = ObsOther(n)
    /\ UNCHANGED <<monitors, iters>>

\* the clock advances while a guard is alive
Tick ==
    /\ \E n \in AllNames : guards[n].live
    /\ \A n \in AllNames : guards[n].live => guards[n].elapsed < MaxTime
    /\ guards' = [n \in AllNames |->
                    IF guards[n].live THEN [guards[n] EXCEPT !.elapsed = @ + 1]
                    ELSE guards[n]]
    /\ ret' = Ret("tick", "", 0, Unit, NoGuard)
    /\ UNCHANGED <<monitors, iters, obs>>

\* the history after MonitorRecordingGuard::drop's match, given the guard g
Released(m, g) ==
    IF m.create_new_snap
    THEN Append(m.snaps, g.snap)
    ELSE [m.snaps EXCEPT ![Len(m.snaps)].duration = @ + g.snap.duration]

\* MonitorRecordingGuard::drop: the guard of Monitor n goes out of scope
GuardDrop(n) ==
    LET m == monitors[n]
        g == guards[n]
    IN /\ Registered(n)
       /\ g.live
       /\ WriteLockFree(n)
       /\ guards' = [guards EXCEPT ![n] = NoGuard]
       /\ obs' = IF g.viaRecord THEN ObsCycle(n) ELSE obs
       /\ UNCHANGED iters
       /\ IF m.poisoned
          THEN \* write().unwrap() on a poisoned lock
               /\ ret' = Ret("release", n, g.elapsed, Panic, g)
               /\ UNCHANGED monitors
          ELSE IF ~m.create_new_snap /\ Len(m.snaps) = 0
          THEN \* snaps.len() - 1 underflows (or snaps[usize::MAX] is out of
               \* bounds): a panic with the write lock held
               /\ ret' = Ret("release", n, g.elapsed, Panic, g)
               /\ monitors' = [monitors EXCEPT ![n].poisoned = TRUE]
          ELSE /\ m.create_new_snap => Len(m.snaps) < MaxLen
               /\ ~m.create_new_snap =>
                      m.snaps[Len(m.snaps)].duration + g.snap.duration <= MaxDur
               /\ ret' = Ret("release", n, g.elapsed, Unit, g)
               /\ monitors' = [monitors EXCEPT ![n].snaps = Released(m, g)]

\* std::mem::forget on the guard: the borrow ends and drop never runs
GuardForget(n) ==
    /\ Registered(n)
    /\ guards[n].live
    /\ guards' = [guards EXCEPT ![n] = NoGuard]
    /\ ret' = Ret("forget", n, 0, Unit, guards[n])
    /\ obs' = ObsOther(n)
    /\ UNCHANGED <<monitors, iters>>

\* Monitor::average
Average(n) ==
    /\ Shareable(n)
    /\ ret' = Ret("average", n, 0, AverageOf(monitors[n]), NoGuard)
    /\ UNCHANGED <<monitors, guards, iters, obs>>

\* Monitor::percentile with percentile = pn/PDen
Percentile(n, pn) ==
    /\ Shareable(n)
    /\ ret' = Ret("percentile", n, pn, PercentileOf(monitors[n], pn), NoGuard)
    /\ UNCHANGED <<monitors, guards, iters, obs>>

\* Monitor::len
LenCall(n) ==
    /\ Shareable(n)
    /\ ret' = Ret("len", n, 0, LenOf(monitors[n]), NoGuard)
    /\ UNCHANGED <<monitors, guards, iters, obs>>

\* Monitor::latest
Latest(n) ==
    /\ Shareable(n)
    /\ ret' = Ret("latest", n, 0, LatestOf(monitors[n]), NoGuard)
    /\ UNCHANGED <<monitors, guards, iters, obs>>

\* Monitor::cull
Cull(n, max_snapshots) ==
    /\ Unborrowed(n)
    /\ WriteLockFree(n)
    /\ IF monitors[n].poisoned
       THEN /\ ret' = Ret("cull", n, max_snapshots, Panic, NoGuard)
            /\ UNCHANGED monitors
       ELSE /\ ret' = Ret("cull", n, max_snapshots,
                          Culled(Len(monitors[n].snaps)
                                 - Len(Truncated(monitors[n].snaps, max_snapshots))),
                          NoGuard)
            /\ monitors' = [monitors EXCEPT
                              ![n].snaps = Truncated(@, max_snapshots)]
    /\ obs' = ObsOther(n)
    /\ UNCHANGED <<guards, iters>>

\* mutant of Cleared: clear() lowers the recording flag as well
ClearedLowersFlag(m) ==
    IF m.poisoned THEN m ELSE [m EXCEPT !.snaps = <<>>, !.create_new_snap = FALSE]

\* the Monitor after Monitor::clear
Cleared(m) == IF m.poisoned THEN m ELSE [m EXCEPT !.snaps = <<>>]

\* Monitor::clear
Clear(n) ==
    /\ Unborrowed(n)
    /\ WriteLockFree(n)
    /\ ret' = Ret("clear", n, 0, IF monitors[n].poisoned THEN Panic ELSE Unit, NoGuard)
    /\ monitors' = [monitors EXCEPT ![n] = Cleared(@)]
    /\ obs' = ObsOther(n)
    /\ UNCHANGED <<guards, iters>>

\* Monitor::new_frame
NewFrame(n) ==
    /\ Unborrowed(n)
    /\ monitors' = [monitors EXCEPT ![n].create_new_snap = FALSE]
    /\ ret' = Ret("new_frame", n, 0, Unit, NoGuard)
    /\ obs' = [obs EXCEPT ![n].frameRecs = <<"frame">>]
    /\ UNCHANGED <<guards, iters>>

\* a user of the crate takes the write lock of the public field snaps and
\* pushes a Snap: monitor.snaps.write().unwrap().push(snap)
DirectWrite(n, d) ==
    /\ Shareable(n)
    /\ WriteLockFree(n)
    /\ IF monitors[n].poisoned
       THEN /\ ret' = Ret("write", n, d, Panic, NoGuard)
            /\ UNCHANGED monitors
       ELSE /\ Len(monitors[n].snaps) < MaxLen
            /\ ret' = Ret("write", n, d, Unit, NoGuard)
            /\ monitors' = [monitors EXCEPT ![n].snaps = Append(@, Snap(d))]
    /\ obs' = ObsOther(n)
    /\ UNCHANGED <<guards, iters>>

\* ------------------------------------------------------------- MonitorIterator
FreeIterId(n) ==
    CHOOSE i \in 1..MaxIters :
        /\ \A it \in iters : it.mon = n => it.id # i
        /\ \A j \in 1..(i - 1) : \E it \in iters : it.mon = n /\ it.id = j

\* the MonitorIterator Monitor::iter builds.  view, out and ended are
\* observations: the history when iter() ran, the copies next() has handed out
\* and whether next() has returned None.
MonitorIteratorNew(n, id) ==
    [mon |-> n, id |-> id, index |-> 0,
     view |-> monitors[n].snaps, out |-> <<>>, ended |-> FALSE]

\* Monitor::iter
Iter(n) ==
    /\ Shareable(n)
    /\ Readers(n) < MaxIters
    /\ IF monitors[n].poisoned
       THEN /\ ret' = Ret("iter", n, 0, Panic, NoGuard)
            /\ UNCHANGED iters
       ELSE /\ ret' = Ret("iter", n, FreeIterId(n), Unit, NoGuard)
            /\ iters' = iters \cup {MonitorIteratorNew(n, FreeIterId(n))}
    /\ UNCHANGED <<monitors, guards, obs>>

\* the iterator after MonitorIterator::next, which reads the locked history
Advanced(it) ==
    LET snaps == monitors[it.mon].snaps
    IN IF it.index < Len(snaps)
       THEN [it EXCEPT !.index = @ + 1, !.out = Append(@, snaps[it.index + 1])]
       ELSE [it EXCEPT !.ended = TRUE]

\* MonitorIterator::next
IterNext(it) ==
    LET snaps == monitors[it.mon].snaps
    IN /\ it \in iters
       /\ iters' = (iters \ {it}) \cup {Advanced(it)}
       /\ ret' = Ret("next", it.mon, it.id,
                     IF it.index < Len(snaps)
                     THEN Some(snaps[it.index + 1].duration) ELSE None,
                     NoGuard)
       /\ UNCHANGED <<monitors, guards, obs>>

\* the MonitorIterator is dropped and with it its read lock
IterDrop(it) ==
    /\ it \in iters
    /\ iters' = iters \ {it}
    /\ ret' = Ret("iter_drop", it.mon, it.id, Unit, NoGuard)
    /\ UNCHANGED <<monitors, guards, obs>>

\* ------------------------------------------------------------- Profiler
\* HashMap::insert
Insert(map, key, value) ==
    [k \in DOMAIN map \cup {key} |-> IF k = key THEN value ELSE map[k]]

\* mutant of GetOrInsert: the contains_key test is missing
GetOrInsertAlways(map, name) == Insert(map, name, MonitorNew(name))

\* the map after Profiler::monitor's contains_key test and insert
GetOrInsert(map, name) ==
    IF ~(name \in DOMAIN map) THEN Insert(map, name, MonitorNew(name)) ELSE map

\* a &mut Profiler can be taken: nothing borrows one of its Monitors
ProfilerUnborrowed == \A n \in DOMAIN monitors : Unborrowed(n)

\* Profiler::monitor
ProfilerMonitor(name) ==
    /\ ProfilerUnborrowed
    /\ monitors' = GetOrInsert(monitors, name)
    /\ ret' = Ret("monitor", name, IF name \in DOMAIN monitors THEN 0 ELSE 1,
                  Unit, NoGuard)
    /\ UNCHANGED <<guards, iters, obs>>

\* Profiler::clear: Monitor::clear on every Monitor, in the HashMap's order;
\* the Monitors visited before the first poisoned one are the ones cleared
ProfilerClear ==
    LET poisoned == {n \in DOMAIN monitors : monitors[n].poisoned}
    IN /\ ProfilerUnborrowed
       /\ IF poisoned = {}
          THEN /\ monitors' = [n \in DOMAIN monitors |-> Cleared(monitors[n])]
               /\ ret' = Ret("profiler_clear", "", 0, Unit, NoGuard)
               /\ obs' = [n \in AllNames |->
                            IF n \in DOMAIN monitors
                            THEN [obs[n] EXCEPT !.onlyCycles = FALSE, !.cycles = 0]
                            ELSE obs[n]]
          ELSE \E visited \in SUBSET (DOMAIN monitors \ poisoned) :
               /\ monitors' = [n \in DOMAIN monitors |->
                                 IF n \in visited THEN Cleared(monitors[n])
                                 ELSE monitors[n]]
               /\ ret' = Ret("profiler_clear", "", 0, Panic, NoGuard)
               /\ obs' = [n \in AllNames |->
                            IF n \in visited
                            THEN [obs[n] EXCEPT !.onlyCycles = FALSE, !.cycles = 0]
                            ELSE obs[n]]
       /\ UNCHANGED <<guards, iters>>

\* --------------------------------------------------------------- lone Snaps
\* SnapRecordingGuard::new: the guard borrows the Snap and reads the clock
SnapRecordingGuardNew(sn) ==
    [sn EXCEPT !.live = TRUE, !.start = 0, !.records = @ + 1]

\* Snap::record on the lone Snap s; the Snap is mutably borrowed for as
\* long as its guard lives, so no second guard can be built meanwhile
SnapRecord(s) ==
    /\ ~lone[s].live
    /\ lone[s].records < MaxRecs
    /\ lone' = [lone EXCEPT ![s] = SnapRecordingGuardNew(lone[s])]
    /\ ret' = Ret("snap_record", s, 0, Unit, NoGuard)
    /\ UNCHANGED <<monitors, guards, iters, obs, track>>

\* the clock advances while a SnapRecordingGuard is alive
SnapTick ==
    /\ \E s \in LoneSnaps : lone[s].live
    /\ \A s \in LoneSnaps : lone[s].live => lone[s].start < MaxTime
    /\ lone' = [s \in LoneSnaps |->
                  IF lone[s].live THEN [lone[s] EXCEPT !.start = @ + 1]
                  ELSE lone[s]]
    /\ ret' = Ret("tick", "", 0, Unit, NoGuard)
    /\ UNCHANGED <<monitors, guards, iters, obs, track>>

\* the body of SnapRecordingGuard::drop with the duration added to the Snap
SnapDroppedAccumulates(sn) ==
    [sn EXCEPT !.duration = @ + sn.start, !.live = FALSE, !.writes = @ + 1]

\* the body of SnapRecordingGuard::drop: the Snap's duration becomes the
\* time elapsed since the guard's start
SnapDropped(sn) ==
    [sn EXCEPT !.duration = sn.start, !.live = FALSE, !.writes = @ + 1]

\* SnapRecordingGuard::drop: the guard of the lone Snap s goes out of scope
SnapGuardDrop(s) ==
    /\ lone[s].live
    /\ lone' = [lone EXCEPT ![s] = SnapDropped(lone[s])]
    /\ ret' = Ret("snap_drop", s, lone[s].start, Unit, NoGuard)
    /\ UNCHANGED <<monitors, guards, iters, obs, track>>

\* ------------------------------------------------- what a Monitor was given
\* the longest log of appended snaps that is followed
LogCap == MaxLen + 1

\* the log of Monitor n after the step: clear() starts it anew; a release
\* that took the Some(true) branch of MonitorRecordingGuard::drop, or a push
\* by the caller, adds the pushed Snap at its end; a release that took the
\* other branch changes in the log the Snap the history ends with; cull()
\* removes no Snap from the log, only the places of those it dropped
LoggedFor(n) ==
    LET t == track[n]
        op == ret'.op
        done == ret'.val.tag = "Unit"
        pushed == IF op = "release" THEN ret'.guard.snap ELSE Snap(ret'.arg)
    IN IF op = "clear" /\ done
       THEN [t EXCEPT !.log = <<>>, !.where = <<>>, !.on = TRUE]
       ELSE IF ~t.on \/ ~done
       THEN t
       ELSE IF op = "write" \/ (op = "release" /\ monitors[n].create_new_snap)
       THEN IF Len(t.log) < LogCap
            THEN [t EXCEPT !.log = Append(@, pushed),
                           !.where = Append(@, Len(t.log) + 1)]
            ELSE [t EXCEPT !.log = <<>>, !.where = <<>>, !.on = FALSE]
       ELSE IF op = "release"
       THEN [t EXCEPT !.log[t.where[Len(t.where)]].duration =
                          @ + ret'.guard.snap.duration]
       ELSE IF op = "cull"
       THEN [t EXCEPT !.where = SubSeq(@, 1, Len(@) - ret'.val.v)]
       ELSE t

\* the step is entered in the log of the Monitor it was made on
Logged ==
    /\ track' = [n \in AllNames |->
                   IF Registered(n) /\ ret'.mon = n
                   THEN LoggedFor(n) ELSE track[n]]
    /\ UNCHANGED lone

\* what is remembered of Monitor n after the step: the history every cull()
\* left, with its argument, until a clear(); recorded tells that a guard
\* from record() was released since; again tells that this cull() had the
\* argument of the one before, which had left that many snaps, and that it
\* removed a snap after such a release
KeptFor(n) ==
    LET t == track[n]
        op == ret'.op
        done == ret'.val.tag = "Unit"
    IN IF op = "cull" /\ done
       THEN [t EXCEPT !.kept =
                [valid |-> TRUE, k |-> ret'.arg, h |-> monitors'[n].snaps,
                 recorded |-> FALSE,
                 again |-> /\ t.kept.valid
                           /\ t.kept.k = ret'.arg
                           /\ Len(t.kept.h) = ret'.arg
                           /\ t.kept.recorded
                           /\ ret'.val.v > 0]]
       ELSE IF op = "clear"
       THEN [t EXCEPT !.kept = TrackNew.kept]
       ELSE IF op = "release" /\ done /\ ret'.guard.viaRecord
       THEN [t EXCEPT !.kept.recorded = TRUE]
       ELSE t

\* the step is remembered for the Monitor it was made on
Kept ==
    /\ track' = [n \in AllNames |->
                   IF Registered(n) /\ ret'.mon = n
                   THEN KeptFor(n) ELSE track[n]]
    /\ UNCHANGED lone

\* ------------------------------------------------------------- specifications
\* a step of a Monitor or of the Profiler leaves the lone Snaps alone, and
\* nothing is recorded in track
Quiet == UNCHANGED <<lone, track>>

InitCommon ==
    /\ guards = [n \in AllNames |-> NoGuard]
    /\ iters = {}
    /\ obs = [n \in AllNames |-> ObsNew]
    /\ ret = Ret("new", "", 0, Unit, NoGuard)
    /\ lone = [s \in LoneSnaps |-> LoneNew]
    /\ track = [n \in AllNames |-> TrackNew]

\* one Monitor built by Monitor::new("test"), as in the unit tests
Init ==
    /\ monitors = [n \in StandaloneNames |-> MonitorNew(n)]
    /\ InitCommon

\* recording: the calls that open, time and commit a recording, and the ones
\* that bound or reset the history
Next ==
    \/ \E n \in StandaloneNames : Record(n) /\ Quiet
    \/ \E n \in StandaloneNames, d \in Durations : GuardNew(n, d) /\ Quiet
    \/ Tick /\ Quiet
    \/ \E n \in StandaloneNames : GuardDrop(n) /\ Quiet
    \/ \E n \in StandaloneNames : GuardForget(n) /\ Quiet
    \/ \E n \in StandaloneNames : LenCall(n) /\ Quiet
    \/ \E n \in StandaloneNames : Latest(n) /\ Quiet
    \/ \E n \in StandaloneNames, k \in 0..MaxLen : Cull(n, k) /\ Quiet
    \/ \E n \in StandaloneNames : Clear(n) /\ Quiet
    \/ \E n \in StandaloneNames : NewFrame(n) /\ Quiet
    \/ \E n \in StandaloneNames, d \in Durations : DirectWrite(n, d) /\ Quiet

Spec == Init /\ [][Next]_vars

\* statistics: average and percentile over every history the writes can build
NextStats ==
    \/ \E n \in StandaloneNames : Record(n) /\ Quiet
    \/ \E n \in StandaloneNames : GuardDrop(n) /\ Quiet
    \/ \E n \in StandaloneNames : NewFrame(n) /\ Quiet
    \/ \E n \in StandaloneNames, d \in Durations : DirectWrite(n, d) /\ Quiet
    \/ \E n \in StandaloneNames, k \in 0..MaxLen : Cull(n, k) /\ Quiet
    \/ \E n \in StandaloneNames : Clear(n) /\ Quiet
    \/ \E n \in StandaloneNames : Average(n) /\ Quiet
    \/ \E n \in StandaloneNames, pn \in PNums : Percentile(n, pn) /\ Quiet

SpecStats == Init /\ [][NextStats]_vars

\* iteration: MonitorIterators alive beside the writers of the history
NextIter ==
    \/ \E n \in StandaloneNames : Iter(n) /\ Quiet
    \/ \E it \in iters : IterNext(it) /\ Quiet
    \/ \E it \in iters : IterDrop(it) /\ Quiet
    \/ \E n \in StandaloneNames : Record(n) /\ Quiet
    \/ \E n \in StandaloneNames : GuardDrop(n) /\ Quiet
    \/ \E n \in StandaloneNames : NewFrame(n) /\ Quiet
    \/ \E n \in StandaloneNames, d \in Durations : DirectWrite(n, d) /\ Quiet
    \/ \E n \in StandaloneNames, k \in 0..MaxLen : Cull(n, k) /\ Quiet
    \/ \E n \in StandaloneNames : Clear(n) /\ Quiet
    \/ \E n \in StandaloneNames : LenCall(n) /\ Quiet

SpecIter == Init /\ [][NextIter]_vars

\* a Profiler built by Profiler::new
InitProfiler ==
    /\ monitors = [n \in {} |-> MonitorNew(n)]
    /\ InitCommon

NextProfiler ==
    \/ \E name \in ProfilerNames : ProfilerMonitor(name) /\ Quiet
    \/ ProfilerClear /\ Quiet
    \/ \E n \in ProfilerNames : Record(n) /\ Quiet
    \/ \E n \in ProfilerNames : GuardDrop(n) /\ Quiet
    \/ \E n \in ProfilerNames : NewFrame(n) /\ Quiet

SpecProfiler == InitProfiler /\ [][NextProfiler]_vars

\* the Profiler with guards that a user builds with MonitorRecordingGuard::new
NextProfilerGuards ==
    \/ \E name \in ProfilerNames : ProfilerMonitor(name) /\ Quiet
    \/ ProfilerClear /\ Quiet
    \/ \E n \in ProfilerNames : Record(n) /\ Quiet
    \/ \E n \in ProfilerNames : GuardNew(n, 0) /\ Quiet
    \/ \E n \in ProfilerNames : GuardDrop(n) /\ Quiet

SpecProfilerGuards == InitProfiler /\ [][NextProfilerGuards]_vars

\* the Monitor's own methods alone: record, the release of its guard,
\* new_frame, cull, clear and the reads
NextApi ==
    \/ \E n \in StandaloneNames : Record(n) /\ Quiet
    \/ Tick /\ Quiet
    \/ \E n \in StandaloneNames : GuardDrop(n) /\ Quiet
    \/ \E n \in StandaloneNames : NewFrame(n) /\ Quiet
    \/ \E n \in StandaloneNames, k \in 0..MaxLen : Cull(n, k) /\ Quiet
    \/ \E n \in StandaloneNames : Clear(n) /\ Quiet
    \/ \E n \in StandaloneNames : LenCall(n) /\ Quiet
    \/ \E n \in StandaloneNames : Latest(n) /\ Quiet

SpecApi == Init /\ [][NextApi]_vars

\* Snaps timed on their own, outside any Monitor
NextSnap ==
    \/ \E s \in LoneSnaps : SnapRecord(s)
    \/ SnapTick
    \/ \E s \in LoneSnaps : SnapGuardDrop(s)

SpecSnap == Init /\ [][NextSnap]_vars

\* one Monitor whose appended snaps are logged: guards from record(), which
\* hold a Snap of duration 0, and from MonitorRecordingGuard::new, which hold
\* one of duration MaxDur; frames, cull, clear and every read, the median for
\* percentile and one MonitorIterator at a time
NextOrder ==
    \/ \E n \in StandaloneNames : Record(n) /\ Logged
    \/ \E n \in StandaloneNames : GuardNew(n, MaxDur) /\ Logged
    \/ \E n \in StandaloneNames : GuardDrop(n) /\ Logged
    \/ \E n \in StandaloneNames : NewFrame(n) /\ Logged
    \/ \E n \in StandaloneNames, k \in 0..MaxLen : Cull(n, k) /\ Logged
    \/ \E n \in StandaloneNames : Clear(n) /\ Logged
    \/ \E n \in StandaloneNames : Average(n) /\ Logged
    \/ \E n \in StandaloneNames : Percentile(n, PDen \div 2) /\ Logged
    \/ \E n \in StandaloneNames : LenCall(n) /\ Logged
    \/ \E n \in StandaloneNames : Latest(n) /\ Logged
    \/ \E n \in StandaloneNames : iters = {} /\ Iter(n) /\ Logged
    \/ \E it \in iters : IterNext(it) /\ Logged
    \/ \E it \in iters : IterDrop(it) /\ Logged

SpecOrder == Init /\ [][NextOrder]_vars

\* one Monitor in frames, with what each cull() left remembered
NextCull ==
    \/ \E n \in StandaloneNames : Record(n) /\ Kept
    \/ \E n \in StandaloneNames : GuardDrop(n) /\ Kept
    \/ \E n \in StandaloneNames : NewFrame(n) /\ Kept
    \/ \E n \in StandaloneNames, k \in 0..MaxLen : Cull(n, k) /\ Kept
    \/ \E n \in StandaloneNames, d \in Durations : DirectWrite(n, d) /\ Kept
    \/ \E n \in StandaloneNames : Latest(n) /\ Kept

SpecCull == Init /\ [][NextCull]_vars

C2_GuardTimesItsScope ==
    (ret.op = "release" /\ ret.guard.viaRecord /\ ret.val = Unit)
        => LatestOf(monitors[ret.mon]) = Some(ret.arg)

\* C3: after N record/release cycles on a new Monitor, with new_frame() or
\* reads at most in between, len() = N.
C3_LenEqualsCycles ==
    \A n \in DOMAIN monitors :
        (obs[n].onlyCycles /\ ~guards[n].live)
            => LenOf(monitors[n]) = Num(obs[n].cycles)

\* C4: on a new Monitor, after a record() whose guard was released, a second
\* record() with no new_frame() in between returns a guard.
C4_SecondRecordReturnsGuard ==
    \A n \in DOMAIN monitors :
        (/\ obs[n].onlyCycles
         /\ Len(obs[n].frameRecs) = 2
         /\ obs[n].frameRecs[1] = "Some")
            => obs[n].frameRecs[2] = "Some"

\* C5: cull(k) leaves the first min(len, k) entries of the history, in their
\* order: the newest entries beyond k are dropped, and a history of at most k
\* entries is unchanged.
C5_CullKeepsOldest ==
    [][\A n \in DOMAIN monitors :
          (ret'.op = "cull" /\ ret'.mon = n)
              => monitors'[n].snaps =
                     SubSeq(monitors[n].snaps, 1,
                            Min(Len(monitors[n].snaps), ret'.arg))]_vars

\* a cull(2) that dropped an entry and kept two different ones
C5_Witness ==
    /\ ret.op = "cull"
    /\ ret.arg = 2
    /\ ret.val.tag = "Unit"
    /\ ret.val.v >= 1
    /\ Len(monitors[ret.mon].snaps) = 2
    /\ monitors[ret.mon].snaps[1] # monitors[ret.mon].snaps[2]

\* the argument pn/PDen of percentile lies in [0,1]
InUnitInterval(pn) == 0 <= pn /\ pn <= PDen

\* C6: on an empty history average() and percentile(p), p in [0,1], return a
\* defined NoData result: no division by zero, no index out of bounds.
C6_EmptyStatsAreNoData ==
    (/\ ret.op \in {"average", "percentile"}
     /\ Len(monitors[ret.mon].snaps) = 0
     /\ ret.op = "percentile" => InUnitInterval(ret.arg))
        => ret.val.tag = "NoData"

\* C7: on a non-empty history percentile(p) with p outside [0,1] fails with
\* InvalidArgument: it neither returns a duration nor panics.
C7_OutOfRangeIsInvalidArgument ==
    (/\ ret.op = "percentile"
     /\ ~InUnitInterval(ret.arg)
     /\ Len(monitors[ret.mon].snaps) > 0)
        => ret.val.tag = "InvalidArgument"

\* the duration with exactly k smaller-or-equal entries before it in ascending
\* order (k counts from 0), stated without sorting
KthSmallest(snaps, k) ==
    CHOOSE d \in {snaps[i].duration : i \in 1..Len(snaps)} :
        /\ Cardinality({i \in 1..Len(snaps) : snaps[i].duration < d}) <= k
        /\ k < Cardinality({i \in 1..Len(snaps) : snaps[i].duration <= d})

\* C8: on a non-empty history percentile(p), p in [0,1], returns the entry at
\* index min(floor(p * count), count - 1) of the durations in ascending order:
\* the minimum at p = 0, the maximum at p = 1.
C8_PercentileIsOrderStatistic ==
    (/\ ret.op = "percentile"
     /\ InUnitInterval(ret.arg)
     /\ Len(monitors[ret.mon].snaps) > 0)
        => LET count == Len(monitors[ret.mon].snaps)
           IN ret.val = Num(KthSmallest(monitors[ret.mon].snaps,
                                        Min((ret.arg * count) \div PDen, count - 1)))

\* C9: a MonitorIterator hands out, in order, copies of the snaps the history
\* held when iter() ran and then ends; every iter() starts before the first
\* snap; the history cannot change while the iterator is alive.
C9_IterIsStableView ==
    /\ \A it \in iters :
           /\ monitors[it.mon].snaps = it.view
           /\ it.index <= Len(it.view)
           /\ it.out = SubSeq(it.view, 1, it.index)
           /\ it.ended => it.out = it.view
    /\ (ret.op = "iter" /\ ret.val = Unit) =>
           \E it \in iters :
               /\ it.mon = ret.mon /\ it.id = ret.arg
               /\ it.index = 0 /\ it.out = <<>> /\ ~it.ended

\* an iterator that handed out two different snaps and then ended
C9_Witness ==
    \E it \in iters :
        /\ it.ended
        /\ Len(it.out) >= 2
        /\ it.out[1] # it.out[2]

\* C10: Profiler::monitor(name) creates, on the first call for a name, a
\* Monitor with that name, an empty history and a closed flag, and leaves the
\* registry as it is on every later call; every entry's name is its key and no
\* step removes an entry.
C10_GetOrCreate ==
    [][/\ \A n \in DOMAIN monitors : n \in DOMAIN monitors'
       /\ \A n \in DOMAIN monitors' : monitors'[n].name = n
       /\ ret'.op = "monitor" =>
              IF ret'.mon \in DOMAIN monitors
              THEN monitors' = monitors
              ELSE /\ DOMAIN monitors' = DOMAIN monitors \cup {ret'.mon}
                   /\ \A n \in DOMAIN monitors : monitors'[n] = monitors[n]
                   /\ monitors'[ret'.mon].snaps = <<>>
                   /\ monitors'[ret'.mon].create_new_snap = FALSE]_vars

\* monitor(name) returned a Monitor registered earlier, with a snap in its
\* history and its flag raised, beside a second registered Monitor
C10_Witness ==
    /\ ret.op = "monitor"
    /\ ret.arg = 0
    /\ Cardinality(DOMAIN monitors) = 2
    /\ Len(monitors[ret.mon].snaps) >= 1
    /\ monitors[ret.mon].create_new_snap

\* C11: right after clear() the history is empty: len() is 0, latest() is
\* None and an iterator built by iter() ends at its first next().
C11_ClearEmpties ==
    ret.op = "clear" =>
        /\ LenOf(monitors[ret.mon]) = Num(0)
        /\ LatestOf(monitors[ret.mon]) = None
        /\ Advanced(MonitorIteratorNew(ret.mon, 1)).ended

\* the sum of the durations, taken from the last entry down
RECURSIVE TotalUpTo(_, _)
TotalUpTo(snaps, i) ==
    IF i = 0 THEN 0 ELSE snaps[i].duration + TotalUpTo(snaps, i - 1)

\* C13: on a non-empty history with durations d1..dn average() is the
\* fraction (d1 + ... + dn) / n.
C13_AverageIsMean ==
    (ret.op = "average" /\ Len(monitors[ret.mon].snaps) > 0)
        => LET snaps == monitors[ret.mon].snaps
           IN /\ ret.val.tag = "Num"
              /\ ret.val.w > 0
              /\ ret.val.v * Len(snaps) = ret.val.w * TotalUpTo(snaps, Len(snaps))

\* average() over three snaps that are not all alike, with a mean that is no
\* whole number
C13_Witness ==
    /\ ret.op = "average"
    /\ Len(monitors[ret.mon].snaps) = 3
    /\ monitors[ret.mon].snaps[1] # monitors[ret.mon].snaps[3]
    /\ ret.val.tag = "Num"
    /\ ret.val.w = 3

\* C17: cull() and clear() change nothing of the Monitor but its history, and
\* new_frame() nothing but the flag; so a record() that follows a cull() or a
\* clear() in a frame where record() was called before returns None.
C17_FrameEffects ==
    [][\A n \in DOMAIN monitors :
          /\ (ret'.op \in {"cull", "clear"} /\ ret'.mon = n) =>
                 /\ monitors'[n] = [monitors[n] EXCEPT !.snaps = monitors'[n].snaps]
                 /\ guards' = guards
          /\ (ret'.op = "new_frame" /\ ret'.mon = n) =>
                 /\ monitors'[n] = [monitors[n] EXCEPT !.create_new_snap = FALSE]
                 /\ guards' = guards
          /\ (/\ ret'.op = "record" /\ ret'.mon = n
              /\ ret.op \in {"cull", "clear"}
              /\ RecsInFrame(n) >= 1) =>
                 ret'.val = None]_vars

\* clear() has emptied a history that held a snap, in a frame whose recording
\* is open: the flag is still raised
C17_Witness ==
    /\ ret.op = "clear"
    /\ ret.val = Unit
    /\ obs[ret.mon].frameRecs = <<"frame", "Some">>
    /\ monitors[ret.mon].snaps = <<>>
    /\ monitors[ret.mon].create_new_snap

\* C19: the release of a MonitorRecordingGuard never fails: a guard alive on
\* a Monitor whose flag is lowered finds a non-empty history to merge into.
C19_ReleaseNeverFails ==
    /\ \A n \in DOMAIN monitors :
           (guards[n].live /\ ~monitors[n].create_new_snap)
               => Len(monitors[n].snaps) > 0
    /\ ret.op = "release" => ret.val = Unit

\* C12: Profiler::clear() empties the history of every registered Monitor
\* and changes nothing else: the registered names, and each Monitor's name,
\* flag and max_snapshots, stay.
C12_ProfilerClearEmptiesAll ==
    [][ret'.op = "profiler_clear" =>
          /\ DOMAIN monitors' = DOMAIN monitors
          /\ \A n \in DOMAIN monitors :
                 monitors'[n] = [monitors[n] EXCEPT !.snaps = <<>>]]_vars

C14_DurationZeroWhileGuarded ==
    /\ \A s \in LoneSnaps :
          /\ lone[s].records = 0 => lone[s].duration = 0
          /\ lone[s].writes = lone[s].records - (IF lone[s].live THEN 1 ELSE 0)
          /\ lone[s].live => lone[s].duration = 0
    /\ ret.op = "snap_drop" =>
          /\ ~lone[ret.mon].live
          /\ lone[ret.mon].duration = ret.arg

\* C14, as the code has it: a Snap is created with duration 0; the guard
\* returned by Snap::record() writes the Snap exactly once, at its release,
\* and the write sets duration to the time elapsed since the guard was
\* created; for the whole time the guard is alive the Snap's duration stays
\* what it was when the guard was built (0 for a Snap never recorded before).
C14_SnapGuardWritesOnceAtRelease ==
    [][\A s \in LoneSnaps :
          /\ lone[s].records = 0 => lone[s].duration = 0
          /\ lone'[s].live => lone'[s].duration = lone[s].duration
          /\ (lone'[s].live /\ lone'[s].records = 1) => lone'[s].duration = 0
          /\ lone'[s].writes =
                 lone'[s].records - (IF lone'[s].live THEN 1 ELSE 0)
          /\ (ret'.op = "snap_drop" /\ ret'.mon = s) =>
                 /\ lone[s].live /\ ~lone'[s].live
                 /\ lone'[s].duration = lone[s].start]_vars

\* a Snap recorded a second time: the release of its second guard, one tick
\* after that guard was built, replaced a duration of two ticks by that tick
C14_Witness ==
    /\ ret.op = "snap_drop"
    /\ lone[ret.mon].records = 2
    /\ lone[ret.mon].writes = 2
    /\ ret.arg = 1
    /\ lone[ret.mon].duration = 1
    /\ \E s \in LoneSnaps \ {ret.mon} : lone[s].live /\ lone[s].duration = 2

\* a call that only reads the history
ReadOps == {"average", "percentile", "len", "latest", "iter", "next", "iter_drop"}

\* h is the first Len(h) snaps of the log t.log, each at its own place
IsPrefixOfLog(h, t) ==
    /\ Len(t.where) = Len(h)
    /\ Len(h) <= Len(t.log)
    /\ \A i \in 1..Len(h) : t.where[i] = i /\ h[i] = t.log[i]

\* h is made of snaps of the log t.log in the order of the log: its i-th
\* snap is the one logged at t.where[i], and the places go upwards
IsInOrderOfLog(h, t) ==
    /\ Len(t.where) = Len(h)
    /\ \A i \in 1..Len(h) :
          /\ t.where[i] \in 1..Len(t.log)
          /\ h[i] = t.log[t.where[i]]
          /\ i > 1 => t.where[i - 1] < t.where[i]

\* C16: after any sequence of operations the history is a prefix of the
\* sequence of snaps appended since the last clear(), in the order their
\* guards were released; average, percentile, iter, len and latest leave the
\* history unchanged.
C16_HistoryIsPrefixOfAppended ==
    [][/\ ret'.op \in ReadOps => monitors' = monitors
       /\ \A n \in DOMAIN monitors' :
             track'[n].on => IsPrefixOfLog(monitors'[n].snaps, track'[n])]_vars

\* C16, as the code has it: after any sequence of operations the history is
\* in recording order: its snaps are snaps appended since the last clear(),
\* in the order their guards were released, without the ones cull() dropped;
\* average, percentile, iter, len and latest leave the history unchanged.
C16_HistoryInAppendOrder ==
    [][/\ ret'.op \in ReadOps => monitors' = monitors
       /\ \A n \in DOMAIN monitors' :
             track'[n].on => IsInOrderOfLog(monitors'[n].snaps, track'[n])]_vars

\* percentile() answered on a history that is not a prefix of the log: a
\* snap was dropped by cull() and another one appended after it, and the
\* history is not sorted by duration
C16_Witness ==
    /\ ret.op = "percentile"
    /\ ret.val.tag = "Num"
    /\ track[ret.mon].on
    /\ track[ret.mon].where = <<1, 3>>
    /\ track[ret.mon].log[2] # track[ret.mon].log[3]
    /\ monitors[ret.mon].snaps[1].duration > monitors[ret.mon].snaps[2].duration

\* C18: once the history of a Monitor holds at least k snaps, every snap
\* appended afterwards is removed by the next cull(k); when the cull(k)
\* before had left k snaps, this cull(k) leaves the very same history, and
\* latest() after it is what it was after the one before.
C18_CullRetainsNothingNew ==
    [][\A n \in DOMAIN monitors :
          (ret'.op = "cull" /\ ret'.mon = n /\ ret'.val.tag = "Unit") =>
              LET k == ret'.arg
                  old == monitors[n].snaps
                  kept == track[n].kept
              IN /\ Len(old) >= k => monitors'[n].snaps = SubSeq(old, 1, k)
                 /\ (kept.valid /\ kept.k = k /\ Len(kept.h) = k) =>
                        /\ monitors'[n].snaps = kept.h
                        /\ LatestOf(monitors'[n]) =
                               LatestOf([monitors[n] EXCEPT !.snaps = kept.h])]_vars

\* a cull(2) after a cull(2) that had left two snaps of different
\* durations: it removed what a guard from record() had appended in between
C18_Witness ==
    /\ ret.op = "cull"
    /\ ret.arg = 2
    /\ ret.val.v > 0
    /\ track[ret.mon].kept.again
    /\ Len(monitors[ret.mon].snaps) = 2
    /\ monitors[ret.mon].snaps[1] # monitors[ret.mon].snaps[2]

====
